---------------------------- MODULE Spec2Model ----------------------------
(***************************************************************************)
(* Model of ion_functions/data/ph_functions.py: the PHSEN (SAMI-II) pH     *)
(* functions ph_434_intensity, ph_calc_phwater and ph_phwater.             *)
(*                                                                         *)
(* Numbers.  The code computes in IEEE double precision through numpy.     *)
(* The model computes in exact rational arithmetic extended with the IEEE  *)
(* special values, so that a division by zero yields an infinity or a NaN  *)
(* and no exception, exactly as numpy does with its default error state.   *)
(* A number is a pair <<n, d>>:                                            *)
(*     d > 0           the rational n/d in lowest terms                    *)
(*     <<1, 0>>        +inf                                                *)
(*     <<-1, 0>>       -inf                                                *)
(*     <<0, 0>>        NaN                                                 *)
(* Rounding is not modelled: every finite result is exact.  Zeros are      *)
(* unsigned, which loses nothing here: every zero the code divides by is   *)
(* a converted integer count or the difference of two equal numbers, both  *)
(* of which are +0.                                                        *)
(***************************************************************************)
EXTENDS Integers, Sequences, FiniteSets, TLC

----------------------------------------------------------------------------
(* Extended rational arithmetic (numpy float64 operators). *)

Abs(a) == IF a < 0 THEN -a ELSE a

Sign(a) == IF a > 0 THEN 1 ELSE IF a < 0 THEN -1 ELSE 0

RECURSIVE GCD(_, _)
GCD(a, b) == IF b = 0 THEN Abs(a) ELSE GCD(b, a % Abs(b))

Norm(n, d) ==
    IF d = 0 THEN <<Sign(n), 0>>
    ELSE LET g == GCD(n, d)
             s == Sign(d)
         IN  <<(s * n) \div g, (s * d) \div g>>

R(n, d) == Norm(n, d)

Num(n) == <<n, 1>>

NaN == <<0, 0>>

PosInf == <<1, 0>>

NegInf == <<-1, 0>>

IsNaN(a) == a[2] = 0 /\ a[1] = 0

IsInf(a) == a[2] = 0 /\ a[1] # 0

IsFinite(a) == a[2] > 0

RNeg(a) == <<-a[1], a[2]>>

RAdd(a, b) ==
    IF a[2] = 1 /\ b[2] = 1 THEN <<a[1] + b[1], 1>>
    ELSE IF IsNaN(a) \/ IsNaN(b) THEN NaN
    ELSE IF IsInf(a) THEN (IF IsInf(b) /\ b[1] # a[1] THEN NaN ELSE a)
    ELSE IF IsInf(b) THEN b
    ELSE LET g == GCD(a[2], b[2])
             l == (a[2] \div g) * b[2]
         IN  Norm(a[1] * (l \div a[2]) + b[1] * (l \div b[2]), l)

RSub(a, b) == RAdd(a, RNeg(b))

RMul(a, b) ==
    IF a[2] = 1 /\ b[2] = 1 THEN <<a[1] * b[1], 1>>
    ELSE IF IsNaN(a) \/ IsNaN(b) THEN NaN
    ELSE IF IsInf(a) \/ IsInf(b)
         THEN (IF a[1] = 0 \/ b[1] = 0 THEN NaN ELSE <<Sign(a[1]) * Sign(b[1]), 0>>)
    ELSE IF a[1] = 0 \/ b[1] = 0 THEN <<0, 1>>
    ELSE LET g1 == GCD(a[1], b[2])
             g2 == GCD(b[1], a[2])
         IN  Norm((a[1] \div g1) * (b[1] \div g2),
                  (a[2] \div g2) * (b[2] \div g1))

RDiv(a, b) ==
    IF IsNaN(a) \/ IsNaN(b) THEN NaN
    ELSE IF IsInf(b) THEN (IF IsInf(a) THEN NaN ELSE <<0, 1>>)
    ELSE IF b[1] = 0 THEN <<Sign(a[1]), 0>>
    ELSE IF IsInf(a) THEN <<Sign(a[1]) * Sign(b[1]), 0>>
    ELSE RMul(a, Norm(b[2], b[1]))

RSq(a) == RMul(a, a)

(* n1/d1 < n2/d2 for d1, d2 > 0, by comparing continued fractions: no      *)
(* cross product is formed.                                                *)
RECURSIVE FracLess(_, _, _, _)
FracLess(n1, d1, n2, d2) ==
    LET q1 == n1 \div d1
        q2 == n2 \div d2
        r1 == n1 - q1 * d1
        r2 == n2 - q2 * d2
    IN  IF q1 # q2 THEN q1 < q2
        ELSE IF r2 = 0 THEN FALSE
        ELSE IF r1 = 0 THEN TRUE
        ELSE FracLess(d2, r2, d1, r1)

(* a < b as IEEE compares: false as soon as one side is NaN. *)
RLess(a, b) ==
    IF IsNaN(a) \/ IsNaN(b) THEN FALSE
    ELSE IF IsInf(a) THEN a[1] < 0 /\ b # a
    ELSE IF IsInf(b) THEN b[1] > 0
    ELSE FracLess(a[1], a[2], b[1], b[2])

RLeq(a, b) == ~IsNaN(a) /\ ~IsNaN(b) /\ ~RLess(b, a)

----------------------------------------------------------------------------
(* Arrays.  A 1-D numpy array is a sequence of numbers; Python indices are *)
(* 0-based, sequence indices 1-based.                                      *)

Min(a, b) == IF a < b THEN a ELSE b

(* a[lo:hi] for 0 <= lo: Python clips the bounds to the array's length. *)
Slice(a, lo, hi) == SubSeq(a, Min(lo, Len(a)) + 1, Min(hi, Len(a)))

RECURSIVE SumTo(_, _)
SumTo(a, n) == IF n = 0 THEN Num(0) ELSE RAdd(SumTo(a, n - 1), a[n])

(* np.sum *)
npSum(a) == SumTo(a, Len(a))

(* np.mean *)
npMean(a) == RDiv(npSum(a), Num(Len(a)))

(* a * b, elementwise *)
ArrMul(a, b) == SubSeq([k \in 1..Len(a) |-> RMul(a[k], b[k])], 1, Len(a))

(* a ** 2, elementwise *)
ArrSq(a) == SubSeq([k \in 1..Len(a) |-> RSq(a[k])], 1, Len(a))

(* A number is a scalar; anything else here is a 1-D array of numbers. *)
IsScalar(v) == Len(v) = 2 /\ v[1] \in Int

(* Element i (1-based) of v broadcast against an array: a scalar and an   *)
(* array of shape (1,) give their one value at every position.            *)
Bcast(v, i) == IF IsScalar(v) THEN v ELSE IF Len(v) = 1 THEN v[1] ELSE v[i]

(* np.argmax, 0-based: the first NaN when there is one, else the first    *)
(* element that no other exceeds.                                          *)
npArgmax(a) ==
    IF \E k \in 1..Len(a) : IsNaN(a[k])
    THEN (CHOOSE k \in 1..Len(a) :
             IsNaN(a[k]) /\ \A j \in 1..(k - 1) : ~IsNaN(a[j])) - 1
    ELSE (CHOOSE k \in 1..Len(a) :
             /\ \A j \in 1..Len(a) : ~RLess(a[k], a[j])
             /\ \A j \in 1..(k - 1) : RLess(a[j], a[k])) - 1

----------------------------------------------------------------------------
(* ph_phwater, lines 180-258. *)

NSets == 23

NCols == 4

NRef == 16

NSkip == 5

NX == 18

step == 7

count == step + 1

(* X = np.linspace(1, 18, 18) *)
X == SubSeq([k \in 1..NX |-> Num(k)], 1, NX)

(* Every start offset, also those with fewer than count points left. *)
nptsAll == Len(X)

npts == Len(X) - step

(* pKa from Clayton and Byrne, 1993; of the shape of psal. *)
pKaScalar(therm, psal) ==
    RAdd(RAdd(RDiv(R(124569, 100), RAdd(therm, R(27315, 100))),
              R(38275, 10000)),
         RMul(R(21, 10000), RSub(Num(35), psal)))

pKaOf(therm, psal) ==
    IF IsScalar(psal) THEN pKaScalar(therm, psal)
    ELSE [k \in 1..Len(psal) |-> pKaScalar(therm, psal[k])]

(* pointph = np.real(pKa + np.lib.scimath.log10(V1 / V2)), where logV is  *)
(* the real part of the logarithm, one value per measurement.             *)
pointphOf(pKa, logV) ==
    SubSeq([k \in 1..Len(logV) |-> RAdd(Bcast(pKa, k), logV[k])], 1, Len(logV))

(* Lines 227-232: R-squared from the five sums of a window. *)
r2FromSums(sumx, sumy, sumxy, sumx2, sumy2) ==
    LET sumxx == RMul(sumx, sumx)
        sumyy == RMul(sumy, sumy)
        ssxy  == RSub(sumxy, RDiv(RMul(sumx, sumy), Num(count)))
        ssx   == RSub(sumx2, RDiv(sumxx, Num(count)))
        ssy   == RSub(sumy2, RDiv(sumyy, Num(count)))
    IN  RDiv(RSq(ssxy), RMul(ssx, ssy))

(* Lines 220-232 for the points xs = X[i:i+count], ys = Y[i:i+count]. *)
r2OfWindow(xs, ys) ==
    r2FromSums(npSum(xs), npSum(ys), npSum(ArrMul(xs, ys)),
               npSum(ArrSq(xs)), npSum(ArrSq(ys)))

(* One pass of the loop at lines 219-232: R-squared of window i (0-based). *)
r2At(Y, i) == r2OfWindow(Slice(X, i, i + count), Slice(Y, i, i + count))

(* r2 after the loop: npts values. *)
r2Of(Y) == SubSeq([k \in 1..npts |-> r2At(Y, k - 1)], 1, npts)

(* The final regression with the roles of the two series exchanged in the *)
(* slope.                                                                  *)
phFromSumsSwapped(sumx, sumy, sumxy, sumx2, sumy2, xbar, ybar) ==
    LET sumyy == RMul(sumy, sumy)
        ssxy  == RSub(sumxy, RDiv(RMul(sumx, sumy), Num(count)))
        ssy   == RSub(sumy2, RDiv(sumyy, Num(count)))
        slope == RDiv(ssxy, ssy)
    IN  RSub(ybar, RMul(slope, xbar))

(* Lines 250-256: the pH from the sums and means of the selected points. *)
phFromSums(sumx, sumy, sumxy, sumx2, sumy2, xbar, ybar) ==
    LET sumxx == RMul(sumx, sumx)
        ssxy  == RSub(sumxy, RDiv(RMul(sumx, sumy), Num(count)))
        ssx   == RSub(sumx2, RDiv(sumxx, Num(count)))
        slope == RDiv(ssxy, ssx)
    IN  RSub(ybar, RMul(slope, xbar))

(* Lines 243-256: the final regression over the selected points. *)
FinalCalcs(IndConcS, pointphS) ==
    phFromSums(npSum(IndConcS), npSum(pointphS),
               npSum(ArrMul(pointphS, IndConcS)),
               npSum(ArrSq(IndConcS)), npSum(ArrSq(pointphS)),
               npMean(IndConcS), npMean(pointphS))

(* Lines 239-258: the selected points and the pH, given the window. *)
FitFrom(IndConca, Y, r2, cutoff1, cutoff2) ==
    [r2 |-> r2, cutoff1 |-> cutoff1, cutoff2 |-> cutoff2,
     IndConcS |-> Slice(IndConca, cutoff1, cutoff2),
     pointphS |-> Slice(Y, cutoff1, cutoff2),
     ph |-> FinalCalcs(Slice(IndConca, cutoff1, cutoff2),
                       Slice(Y, cutoff1, cutoff2))]

(* Lines 235-236: cutoff1 = np.argmax(r2), cutoff2 = cutoff1 + count. *)
FitAt(IndConca, Y, r2, cutoff1) ==
    FitFrom(IndConca, Y, r2, cutoff1, cutoff1 + count)

(* Lines 215-258 on IndConca = IndConc[5:] and Y = pointph[5:]. *)
FitBest(IndConca, Y, r2) == FitAt(IndConca, Y, r2, npArgmax(r2))

(* Lines 205-258 on the two series of 23 values: the locals at return. *)
SelectAndFit(IndConc, pointph) ==
    FitBest(Slice(IndConc, NSkip, Len(IndConc)),
            Slice(pointph, NSkip, Len(pointph)),
            r2Of(Slice(pointph, NSkip, Len(pointph))))

----------------------------------------------------------------------------
(* ph_phwater, lines 141-178: the blanks and the reshape. *)

(* astype(np.float) of an array of counts *)
AsFloat(a) == [k \in 1..Len(a) |-> Num(a[k])]

(* The ratios of lines 144-149 and 152-157; ref[j] of the code is ref[j+1] *)
(* here.  Reading ref[15] needs 16 elements: a shorter array raises        *)
(* IndexError, a longer one is read like one of 16.                        *)
CanIndexRef(ref) == Len(ref) >= NRef

arr434Of(ref) ==
    <<RDiv(ref[2], ref[1]), RDiv(ref[6], ref[5]),
      RDiv(ref[10], ref[9]), RDiv(ref[14], ref[13])>>

arr578Of(ref) ==
    <<RDiv(ref[4], ref[3]), RDiv(ref[8], ref[7]),
      RDiv(ref[12], ref[11]), RDiv(ref[16], ref[15])>>

(* A reshape that takes the first 92 elements of a longer array. *)
CanReshapeLonger(light) == Len(light) >= NSets * NCols

(* np.reshape(light, (23, 4)) is defined for 92 elements only; row-major. *)
CanReshape(light) == Len(light) = NSets * NCols

Reshape(light) ==
    [i \in 1..NSets |-> [j \in 1..NCols |-> light[NCols * (i - 1) + j]]]

(* new[:, c] for the 0-based column c *)
Column(new, c) == [i \in 1..Len(new) |-> new[i][c + 1]]

(* A blank feeds -log10: the absorbances are finite only for a blank that  *)
(* is finite and positive.                                                 *)
GoodBlank(b) == IsFinite(b) /\ b[1] > 0

(* Lines 172-199.  With good blanks the indicator concentrations are the   *)
(* given series.  Otherwise A434blank or A578blank is an infinity or a     *)
(* NaN, so is abs434 or abs578 at every point, HI and I are infinities of  *)
(* opposite sign or NaN, and IndConc = HI + I is NaN at every point.       *)
IndConcOf(blank434, blank578, IndConcGiven) ==
    IF GoodBlank(blank434) /\ GoodBlank(blank578) THEN IndConcGiven
    ELSE [k \in 1..Len(IndConcGiven) |-> NaN]

(* The locals of ph_phwater at its return. *)
AtReturn(blank434, blank578, new, IndConc, pointph) ==
    [exc |-> "none", blank434 |-> blank434, blank578 |-> blank578,
     int434 |-> Column(new, 1), int578 |-> Column(new, 3),
     IndConc |-> IndConc, pointph |-> pointph]
    @@ SelectAndFit(IndConc, pointph)

(* Lines 160-258, the blanks known. *)
AfterBlanks(blank434, blank578, light, pKa, logV, IndConcGiven) ==
    AtReturn(blank434, blank578, Reshape(AsFloat(light)),
             IndConcOf(blank434, blank578, IndConcGiven),
             pointphOf(pKa, logV))

(* ph_phwater: what it raises and, when it returns, its locals at the      *)
(* return.  logV and IndConcGiven stand for the transcendental part of     *)
(* lines 172-200 (log10 of the intensity ratios): the real part of         *)
(* log10(V1 / V2) and HI + I for these inputs.                             *)
ph_phwater(ref, light, therm, psal, logV, IndConcGiven) ==
    IF ~CanIndexRef(ref) THEN [exc |-> "IndexError"]
    ELSE IF ~CanReshape(light) THEN [exc |-> "ValueError"]
    ELSE AfterBlanks(npMean(arr434Of(AsFloat(ref))),
                     npMean(arr578Of(AsFloat(ref))),
                     light, pKaOf(therm, psal), logV, IndConcGiven)

----------------------------------------------------------------------------
(* ph_434_intensity, lines 16-34. *)

(* np.zeros(n) *)
npZeros(n) == SubSeq([k \in 1..n |-> Num(0)], 1, n)

(* tmp after the first n passes of the loop at lines 28-30. *)
RECURSIVE Stack434(_, _)
Stack434(light, n) ==
    IF n = 0 THEN <<npZeros(NSets)>>
    ELSE Append(Stack434(light, n - 1), Column(Reshape(AsFloat(light[n])), 1))

(* What ph_434_intensity raises or returns; ndim is light.ndim: a 1-D     *)
(* array holds the counts of one record, a 2-D array one record per row.  *)
ph_434_intensity(light, ndim) ==
    IF ndim = 1
    THEN IF ~CanReshape(light) THEN [exc |-> "ValueError"]
         ELSE [exc |-> "none", si434 |-> Column(Reshape(AsFloat(light)), 3)]
    ELSE IF \E n \in 1..Len(light) : ~CanReshape(light[n])
         THEN [exc |-> "ValueError"]
         ELSE [exc |-> "none", si434 |-> Tail(Stack434(light, Len(light)))]

----------------------------------------------------------------------------
(* ph_calc_phwater, lines 72-99. *)

(* np.tile(35.0, (nRec, 1)) whatever salinity was given *)
TileDefault(v, nRec) == SubSeq([k \in 1..nRec |-> <<Num(35)>>], 1, nRec)

(* np.tile(psal, (nRec, 1)): nRec rows of the one value *)
Tile(v, nRec) == SubSeq([k \in 1..nRec |-> <<v>>], 1, nRec)

(* a[i] for the 0-based i, and whether a has it *)
HasIndex(a, i) == i + 1 <= Len(a)

At(a, i) == a[i + 1]

----------------------------------------------------------------------------
(* State. *)

VARIABLES
    pc,        \* "call", "loop", "returned" or "raised"
    fn,        \* the function called
    ndim,      \* argument: ref.ndim and light.ndim, 1 or 2
    ref,       \* argument: blank-cycle counts (one record, or one per record)
    light,     \* argument: measurement-cycle counts
    therm,     \* argument: temperature, deg C
    psal,      \* argument: salinity
    logV,      \* real part of log10(V1 / V2) for these inputs
    IndConc,   \* HI + I for these inputs
    frame,     \* locals of ph_phwater at its return
    iRec,      \* ph_calc_phwater: loop index
    pH,        \* ph_calc_phwater: the output array; the value returned
    si434,     \* ph_434_intensity: the value returned
    exc        \* the exception that ended the call, or "none"

vars == <<pc, fn, ndim, ref, light, therm, psal, logV, IndConc, frame, iRec, pH,
          si434, exc>>

args == <<fn, ndim, ref, light, therm, psal, logV, IndConc>>

----------------------------------------------------------------------------
(* Inputs. *)

MaxNoise == 2

MaxSkew == 2

(* Temperatures at which 1245.69 / (T + 273.15) is 4.1725 and 4.4225 *)
(* (25.3976 and 8.5210 deg C).                                          *)
T25 == R(847773, 33380)

T8 == R(301473, 35380)

(* A blank cycle and a measurement cycle of positive counts. *)
RefCounts ==
    <<2000, 1800, 2100, 1890, 2000, 1900, 2100, 1995,
      2000, 1850, 2000, 1900, 2000, 1750, 2000, 1800>>

RefCount(k) == RefCounts[((k - 1) % NRef) + 1]

LightCount(seed, k) ==
    LET i == (k - 1) \div NCols
        j == (k - 1) % NCols
    IN  IF j = 0 THEN 2000 + seed
        ELSE IF j = 1 THEN 1200 + seed + i
        ELSE IF j = 2 THEN 2050 + seed
        ELSE 1700 + seed - i

LightOf(seed, n) == [k \in 1..n |-> LightCount(seed, k)]

(* Indicator concentration over the 23 measurements: falling, constant,   *)
(* or falling unevenly.                                                    *)
IndConcShapes ==
    { SubSeq([k \in 1..NSets |-> Num(30 - k)], 1, NSets),
      SubSeq([k \in 1..NSets |-> Num(12)], 1, NSets),
      SubSeq([k \in 1..NSets |-> Num(30 - k - 2 * (k % 2))], 1, NSets) }

(* Point pH that is m * IndConc + b, but for a few disturbed points: the  *)
(* real part of the logarithm is m * IndConc + c, disturbed.              *)
Slopes == {-1, 0, 2}

Offsets == {-7}

NoiseAt(k) == IF k % 2 = 0 THEN 2 ELSE -1

RECURSIVE Picks(_)
Picks(n) ==
    IF n = 0 THEN {{}}
    ELSE LET less == Picks(n - 1)
         IN  less \cup {S \cup {k} : S \in less, k \in 1..NSets}

Disturbances ==
    { [k \in 1..NSets |-> IF k \in S THEN NoiseAt(k) ELSE 0] :
         S \in Picks(MaxNoise) }

logVOf(x, m, c, d) ==
    SubSeq([k \in 1..NSets |->
              RAdd(RAdd(RMul(Num(m), x[k]), Num(c)), Num(d[k]))], 1, NSets)

NoFrame == [exc |-> "none"]

----------------------------------------------------------------------------
(* ph_phwater called on one record. *)

InitWindow ==
    /\ pc = "call"
    /\ fn = "ph_phwater"
    /\ ndim = 1
    /\ ref = RefCounts
    /\ light = LightOf(0, NSets * NCols)
    /\ therm = T25
    /\ psal = Num(35)
    /\ IndConc \in IndConcShapes
    /\ \E m \in Slopes, c \in Offsets, d \in Disturbances :
          logV = logVOf(IndConc, m, c, d)
    /\ frame = NoFrame
    /\ iRec = 0
    /\ pH = <<>>
    /\ si434 = <<>>
    /\ exc = "none"

(* Blank and measurement cycles of every length near 16 and 92, the blank  *)
(* cycle with one count, or one reference/signal pair, zero or negative.  *)
RefEdits(n) ==
    {{}} \cup {{k} : k \in 1..n} \cup {{k, k + 1} : k \in {j \in 1..(n - 1) : j % 2 = 1}}

BadCounts == {0, -5}

RefOf(n, E, v) == [k \in 1..n |-> IF k \in E THEN v ELSE RefCount(k)]

RefFamily ==
    UNION { { RefOf(n, E, v) : E \in RefEdits(n), v \in BadCounts } :
               n \in (NRef - MaxSkew)..(NRef + MaxSkew) }

LightFamily ==
    { LightOf(0, n) : n \in (NSets * NCols - MaxSkew)..(NSets * NCols + MaxSkew) }

InitFront ==
    /\ pc = "call"
    /\ fn = "ph_phwater"
    /\ ndim = 1
    /\ ref \in RefFamily
    /\ light \in LightFamily
    /\ therm = T25
    /\ psal = Num(35)
    /\ IndConc = SubSeq([k \in 1..NSets |-> Num(30 - k)], 1, NSets)
    /\ logV = logVOf(IndConc, 2, -7, [k \in 1..NSets |-> IF k = 8 THEN 2 ELSE 0])
    /\ frame = NoFrame
    /\ iRec = 0
    /\ pH = <<>>
    /\ si434 = <<>>
    /\ exc = "none"

InitPhwater == InitWindow \/ InitFront

Call_ph_phwater ==
    /\ pc = "call"
    /\ fn = "ph_phwater"
    /\ frame' = ph_phwater(ref, light, therm, psal, logV, IndConc)
    /\ exc' = frame'.exc
    /\ pc' = IF frame'.exc = "none" THEN "returned" ELSE "raised"
    /\ UNCHANGED <<args, iRec, pH, si434>>

NextPhwater == Call_ph_phwater

SpecPhwater == InitPhwater /\ [][NextPhwater]_vars

----------------------------------------------------------------------------
(* ph_434_intensity called on one record or on an array of records. *)

MaxSeed == 3

MaxRec == 2

SkewLens == (NSets * NCols - MaxSkew)..(NSets * NCols + MaxSkew)

(* The sequences over S of length 1..n *)
RECURSIVE SeqsTo(_, _)
SeqsTo(S, n) ==
    IF n = 0 THEN {}
    ELSE LET less == SeqsTo(S, n - 1)
         IN  {<<x>> : x \in S} \cup less \cup {Append(q, x) : q \in less, x \in S}

LightArrays ==
    UNION { { [k \in 1..Len(q) |-> LightOf(q[k], n)] : q \in SeqsTo(0..MaxSeed, MaxRec) } :
               n \in SkewLens }

InitIntensity ==
    /\ pc = "call"
    /\ fn = "ph_434_intensity"
    /\ \/ ndim = 1 /\ light \in {LightOf(sd, n) : sd \in 0..MaxSeed, n \in SkewLens}
       \/ ndim = 2 /\ light \in LightArrays
    /\ ref = <<>>
    /\ therm = Num(0)
    /\ psal = Num(35)
    /\ logV = <<>>
    /\ IndConc = <<>>
    /\ frame = NoFrame
    /\ iRec = 0
    /\ pH = <<>>
    /\ si434 = <<>>
    /\ exc = "none"

(* The call ends with what ph_434_intensity raised or returned. *)
EndIntensity(r) ==
    /\ exc' = r.exc
    /\ si434' = IF r.exc = "none" THEN r.si434 ELSE <<>>
    /\ pc' = IF r.exc = "none" THEN "returned" ELSE "raised"

Call_ph_434_intensity ==
    /\ pc = "call"
    /\ fn = "ph_434_intensity"
    /\ EndIntensity(ph_434_intensity(light, ndim))
    /\ UNCHANGED <<args, frame, iRec, pH>>

NextIntensity == Call_ph_434_intensity

SpecIntensity == InitIntensity /\ [][NextIntensity]_vars

----------------------------------------------------------------------------
(* ph_calc_phwater called on one record or on an array of records. *)

(* Three measurements: a clean one at 25.4 deg C, a disturbed one at      *)
(* 8.5 deg C with unevenly falling indicator, one with constant point pH. *)
Measurements ==
    { [therm |-> T25,
       IndConc |-> SubSeq([k \in 1..NSets |-> Num(30 - k)], 1, NSets),
       m |-> 1, d |-> [k \in 1..NSets |-> 0]],
      [therm |-> T8,
       IndConc |-> SubSeq([k \in 1..NSets |-> Num(30 - k - 2 * (k % 2))], 1, NSets),
       m |-> -1, d |-> [k \in 1..NSets |-> IF k = 9 THEN 2 ELSE 0]],
      [therm |-> T25,
       IndConc |-> SubSeq([k \in 1..NSets |-> Num(30 - k)], 1, NSets),
       m |-> 0, d |-> [k \in 1..NSets |-> 0]] }

(* Scalar salinity: 35 and 30.238 (35 - 100/21). *)
Salinities == {Num(35), R(635, 21)}

(* The rows of a 2-D array have one length; therm may be short of nRec. *)
InitBatch ==
    /\ pc = "call"
    /\ fn = "ph_calc_phwater"
    /\ \/ \E q \in SeqsTo(Measurements, MaxRec), n \in {NSets * NCols - 1, NSets * NCols},
             short \in {0, 1} :
             /\ ndim = 2
             /\ ref = [k \in 1..Len(q) |-> RefCounts]
             /\ light = [k \in 1..Len(q) |-> LightOf(k, n)]
             /\ therm = SubSeq([k \in 1..Len(q) |-> q[k].therm], 1, Len(q) - short)
             /\ IndConc = [k \in 1..Len(q) |-> q[k].IndConc]
             /\ logV = [k \in 1..Len(q) |-> logVOf(q[k].IndConc, q[k].m, -7, q[k].d)]
             /\ psal \in Salinities
       \/ \E r \in Measurements, n \in {NSets * NCols - 1, NSets * NCols} :
             /\ ndim = 1
             /\ ref = RefCounts
             /\ light = LightOf(0, n)
             /\ therm = r.therm
             /\ IndConc = r.IndConc
             /\ logV = logVOf(r.IndConc, r.m, -7, r.d)
             /\ psal \in Salinities
    /\ frame = NoFrame
    /\ iRec = 0
    /\ pH = <<>>
    /\ si434 = <<>>
    /\ exc = "none"

(* Line 80: the one record's result r is the function's. *)
EndSingle(r) ==
    /\ exc' = r.exc
    /\ pH' = IF r.exc = "none" THEN r.ph ELSE pH
    /\ pc' = IF r.exc = "none" THEN "returned" ELSE "raised"

(* Lines 78-91: one record is handed to ph_phwater; for several the       *)
(* output array is made and a scalar salinity tiled.                      *)
Enter_ph_calc_phwater ==
    /\ pc = "call"
    /\ fn = "ph_calc_phwater"
    /\ IF ndim = 1
       THEN /\ EndSingle(ph_phwater(ref, light, therm, psal, logV, IndConc))
            /\ UNCHANGED <<frame, iRec>>
       ELSE /\ pH' = npZeros(Len(ref))
            /\ frame' = [exc |-> "none", nRec |-> Len(ref),
                         psal |-> IF IsScalar(psal) THEN Tile(psal, Len(ref)) ELSE psal]
            /\ iRec' = 0
            /\ pc' = "loop"
            /\ UNCHANGED exc
    /\ UNCHANGED <<args, si434>>

(* Lines 95-97 with r the result of ph_phwater: an exception leaves the   *)
(* function, a value is stored in pH[iRec].                               *)
StoreOrRaise(r) ==
    IF r.exc # "none"
    THEN /\ exc' = r.exc
         /\ pc' = "raised"
         /\ UNCHANGED <<pH, iRec>>
    ELSE /\ pH' = [pH EXCEPT ![iRec + 1] = r.ph]
         /\ iRec' = iRec + 1
         /\ UNCHANGED <<pc, exc>>

(* Lines 94-97: one pass of the loop.  Indexing an argument that has no   *)
(* element iRec raises IndexError.                                        *)
Iterate_ph_calc_phwater ==
    /\ pc = "loop"
    /\ iRec < frame.nRec
    /\ IF ~HasIndex(therm, iRec) \/ ~HasIndex(frame.psal, iRec)
       THEN /\ exc' = "IndexError"
            /\ pc' = "raised"
            /\ UNCHANGED <<pH, iRec>>
       ELSE StoreOrRaise(ph_phwater(At(ref, iRec), At(light, iRec),
                                    At(therm, iRec), At(frame.psal, iRec),
                                    At(logV, iRec), At(IndConc, iRec)))
    /\ UNCHANGED <<args, frame, si434>>

(* Line 99 *)
Return_ph_calc_phwater ==
    /\ pc = "loop"
    /\ iRec = frame.nRec
    /\ pc' = "returned"
    /\ UNCHANGED <<args, frame, iRec, pH, si434, exc>>

NextBatch ==
    \/ Enter_ph_calc_phwater
    \/ Iterate_ph_calc_phwater
    \/ Return_ph_calc_phwater

SpecBatch == InitBatch /\ [][NextBatch]_vars

----------------------------------------------------------------------------
(* Properties of ph_phwater. *)

Returned == fn = "ph_phwater" /\ pc = "returned"

Ended == fn = "ph_phwater" /\ pc # "call"

(* R-squared of the window the final regression uses. *)
ChosenR2 == frame.r2[frame.cutoff1 + 1]

(* C1: after the first 5 of the 23 points are discarded, exactly 11       *)
(* window offsets 0..10 are evaluated, and the offset chosen has the      *)
(* largest R-squared; among several offsets with the largest R-squared    *)
(* the smallest is chosen.                                                 *)
C1_LargestR2FirstWins ==
    Returned =>
        /\ Len(frame.r2) = 11
        /\ frame.cutoff1 \in 0..10
        /\ \A j \in 1..11 :
              ~IsNaN(frame.r2[j]) => RLeq(frame.r2[j], ChosenR2)
        /\ \A j \in 1..frame.cutoff1 :
              ~IsNaN(frame.r2[j]) => RLess(frame.r2[j], ChosenR2)

(* The selected points lie on the line pointph = m * IndConc + b. *)
OnLine(m, b) ==
    \A j \in 1..Len(frame.pointphS) :
        frame.pointphS[j] = RAdd(RMul(Num(m), frame.IndConcS[j]), Num(b))

NotConstant(a) == \E j \in 1..Len(a) : a[j] # a[1]

LineSlopes == -3..3

LineIntercepts == -3..3

(* C2: when the 8 selected (IndConc, pointph) pairs lie on a line         *)
(* pointph = m * IndConc + b and IndConc is not constant over them, the   *)
(* pH returned is b.                                                       *)
C2_LineGivesIntercept ==
    Returned =>
        \A m \in LineSlopes, b \in LineIntercepts :
            OnLine(m, b) /\ NotConstant(frame.IndConcS) => frame.ph = Num(b)

C2_Witness ==
    /\ Returned
    /\ \E m \in LineSlopes \ {0}, b \in LineIntercepts :
          OnLine(m, b) /\ NotConstant(frame.IndConcS) /\ frame.ph = Num(b)
    /\ \E j \in 1..NSets : frame.pointph[j] # RAdd(RMul(Num(2), IndConc[j]), Num(1))

(* C5: a light array whose length is not 92 ends the call in an error:    *)
(* no pH is returned and no 23 x 4 array is made of it.                   *)
C5_BadLightLengthRaises ==
    Ended /\ Len(light) # 92 =>
        /\ pc = "raised"
        /\ exc # "none"
        /\ "ph" \notin DOMAIN frame
        /\ "int434" \notin DOMAIN frame

C5_Witness ==
    /\ Ended
    /\ Len(light) = 91
    /\ Len(ref) = 16
    /\ pc = "raised"
    /\ exc = "ValueError"

(* C6: a reference array whose length is not exactly 16, shorter or       *)
(* longer, is rejected with an error and no pH is returned.               *)
C6_BadRefLengthRaises ==
    Ended /\ Len(ref) # 16 => pc = "raised" /\ exc # "none"

(* Denominators and ratios of the blank estimation, where ref has them. *)
ZeroDenominator == \E k \in {1, 3, 5, 7, 9, 11, 13, 15} : ref[k] = 0

NonPositiveRatio ==
    \E k \in {1, 3, 5, 7, 9, 11, 13, 15} :
        ref[k] # 0 /\ ~RLess(Num(0), RDiv(Num(ref[k + 1]), Num(ref[k])))

(* C7: the blank estimation fails, and no pH is returned, whenever one of *)
(* the eight denominators ref[0], ref[2], ..., ref[14] is zero or one of  *)
(* the eight ratios is not positive.                                      *)
C7_BadBlankRaises ==
    Ended /\ Len(ref) >= 16 /\ (ZeroDenominator \/ NonPositiveRatio) =>
        pc = "raised" /\ exc # "none"

(* C8: the window search fails when every one of the 11 windows has an    *)
(* undefined R-squared (ssx or ssy zero); no window with an undefined     *)
(* R-squared is selected and no pH is computed from one.                  *)
C8_NoUndefinedWindow ==
    /\ Returned => ~IsNaN(ChosenR2)
    /\ Ended /\ CanIndexRef(ref) /\ CanReshape(light)
         /\ (\A j \in 1..11 : IsNaN(r2At(Slice(pointphOf(pKaOf(therm, psal), logV),
                                              5, 23), j - 1)))
         => pc = "raised"

(* C10: at the final regression cutoff1 is in 0..10 and cutoff2 is        *)
(* cutoff1 + 8, at most 18; both series are sliced with the same bounds   *)
(* to exactly 8 consecutive points, none of them among the first 5 of the *)
(* 23 points.                                                              *)
C10_WindowBounds ==
    Returned =>
        /\ frame.cutoff1 \in 0..10
        /\ frame.cutoff2 = frame.cutoff1 + 8
        /\ frame.cutoff2 <= 18
        /\ Len(frame.IndConcS) = 8
        /\ Len(frame.pointphS) = 8
        /\ \A j \in 1..8 :
              /\ frame.IndConcS[j] = frame.IndConc[5 + frame.cutoff1 + j]
              /\ frame.pointphS[j] = frame.pointph[5 + frame.cutoff1 + j]

C10_Witness ==
    /\ Returned
    /\ frame.cutoff1 = 10
    /\ frame.cutoff2 = 18
    /\ ~IsNaN(ChosenR2)
    /\ frame.pointphS = SubSeq(frame.pointph, 16, 23)

----------------------------------------------------------------------------
(* Properties of ph_calc_phwater and ph_434_intensity. *)

BatchEnded == fn = "ph_calc_phwater" /\ ndim = 2 /\ pc \in {"returned", "raised"}

(* ph_phwater on record i (1-based) of the batch alone, with the scalar   *)
(* salinity the batch was given.                                          *)
Alone(i) == ph_phwater(ref[i], light[i], therm[i], psal, logV[i], IndConc[i])

(* C3: for a batch of N valid records and one scalar salinity, output     *)
(* element i is what ph_phwater returns for record i alone with that      *)
(* salinity, for every i: no element depends on another record's inputs.  *)
C3_BatchEqualsSingle ==
    BatchEnded /\ pc = "returned" =>
        /\ Len(pH) = Len(ref)
        /\ \A i \in 1..Len(ref) : Alone(i).exc = "none" /\ pH[i] = Alone(i).ph

C3_Witness ==
    /\ BatchEnded
    /\ pc = "returned"
    /\ Len(ref) >= 2
    /\ psal = R(635, 21)
    /\ pH[1] # pH[2]
    /\ pH[1] = Alone(1).ph

(* C4: in a batch a failure at one record does not keep the results of    *)
(* the other records from being computed and returned: every valid        *)
(* record's pH is produced wherever the failing record sits.              *)
C4_FailureIsolated ==
    BatchEnded =>
        \A i \in 1..Len(ref) :
            HasIndex(therm, i - 1) /\ Alone(i).exc = "none" =>
                pc = "returned" /\ pH[i] = Alone(i).ph

(* C9: ph_434_intensity returns column 1 (sig434) of the light cycle      *)
(* reshaped to 23 sets of 4, for one record and for an array of records;  *)
(* for an array of one record the row returned is the single-record       *)
(* result for that record.                                                 *)
C9_Intensity434IsColumn1 ==
    fn = "ph_434_intensity" /\ pc = "returned" =>
        /\ ndim = 1 => si434 = Column(Reshape(AsFloat(light)), 1)
        /\ ndim = 2 =>
              \A i \in 1..Len(light) :
                  si434[i] = Column(Reshape(AsFloat(light[i])), 1)
        /\ ndim = 2 /\ Len(light) = 1 =>
              si434[1] = ph_434_intensity(light[1], 1).si434

============================================================================
